---- MODULE Spec2Model ----
(***************************************************************************)
(* hashstructure: Hash(v, opts) walks an arbitrary Go value with reflect   *)
(* and writes it to a hash.Hash64.  The model follows src/hashstructure.go *)
(* (Hash, walker.visit with its key-ordering loop) and, for comparison of  *)
(* the key ordering, sortValues of src/unnamed/part_001.                   *)
(*                                                                         *)
(* hash.Hash64 (crc64, fnv) is library code: an accumulator is the bytes   *)
(* written since Reset, and Sum64 is a function of those bytes.  On the    *)
(* streams of KeyStreams the two digests are drawn from every function     *)
(* into Digests, so that every collision pattern between map keys occurs;  *)
(* on every other stream the digest is collision free.                     *)
(***************************************************************************)
EXTENDS Integers, Sequences, FiniteSets, TLC

\* ------------------------------------------------------------------------
\* Bounds
\* ------------------------------------------------------------------------
MaxDigest == 3
MaxLen == 3

Digests == 1..MaxDigest

\* ------------------------------------------------------------------------
\* Go values as reflect sees them
\* ------------------------------------------------------------------------
Val(k, n, b, e, x, t, f) ==
  [kind |-> k, num |-> n, bytes |-> b, elems |-> e, vals |-> x,
   tname |-> t, flds |-> f]

Invalid     == Val("invalid", 0, <<>>, <<>>, <<>>, "", <<>>)
IntV(n)      == Val("int", n, <<>>, <<>>, <<>>, "", <<>>)
Int8V(n)     == Val("int8", n, <<>>, <<>>, <<>>, "", <<>>)
Int32V(n)    == Val("int32", n, <<>>, <<>>, <<>>, "", <<>>)
Int64V(n)    == Val("int64", n, <<>>, <<>>, <<>>, "", <<>>)
UintV(n)     == Val("uint", n, <<>>, <<>>, <<>>, "", <<>>)
Uint64V(n)   == Val("uint64", n, <<>>, <<>>, <<>>, "", <<>>)
BoolV(b)     == Val("bool", IF b THEN 1 ELSE 0, <<>>, <<>>, <<>>, "", <<>>)
StrV(s)      == Val("string", 0, s, <<>>, <<>>, "", <<>>)
SliceV(es)   == Val("slice", 0, <<>>, es, <<>>, "", <<>>)
ArrayV(es)   == Val("array", 0, <<>>, es, <<>>, "", <<>>)
Func        == Val("func", 0, <<>>, <<>>, <<>>, "", <<>>)
Chan        == Val("chan", 0, <<>>, <<>>, <<>>, "", <<>>)
PtrV(e)      == Val("ptr", 0, <<>>, <<e>>, <<>>, "", <<>>)
NilPtr      == Val("ptr", 0, <<>>, <<>>, <<>>, "", <<>>)
IfaceV(e)    == Val("interface", 0, <<>>, <<e>>, <<>>, "", <<>>)
NilIface    == Val("interface", 0, <<>>, <<>>, <<>>, "", <<>>)
\* a map lists its keys in the order MapKeys returns them, vals aligned
MapV(ks, vs) == Val("map", 0, <<>>, ks, vs, "", <<>>)
\* a struct: its type name, its field declarations, its field values
StructV(t, fs, es) == Val("struct", 0, <<>>, es, <<>>, t, fs)
Fld(nm, ex, tg) == [name |-> nm, exported |-> ex, tag |-> tg]

\* reflect flags of a Value: flagAddr and flagRO
Flags(a, r) == [addr |-> a, ro |-> r]
Fresh == Flags(FALSE, FALSE)

\* ------------------------------------------------------------------------
\* hash.Hash64
\* ------------------------------------------------------------------------
\* strings are their bytes
Sa   == <<97>>
Sb   == <<98>>
Sc   == <<99>>
Sfoo == <<102, 111, 111>>
Sbar == <<98, 97, 114>>
Sbaz == <<98, 97, 122>>

KeyStreams == {Sa, Sb, Sc}

VARIABLES crc64, fnv64, one, two, sv, opts, accs, calls, loop

vars == <<crc64, fnv64, one, two, sv, opts, accs, calls, loop>>

\* the state of the test cases, and the state of the concurrent callers
cases   == <<crc64, fnv64, one, two, sv>>
callers == <<opts, accs, calls>>

Hashers(c, f) == [crc64 |-> c, fnv |-> f]

Zero == <<0>>

HasherId(h) == IF h = "crc64" THEN 1 ELSE 2

\* Sum64 of the accumulator h after the bytes s were written to it
Sum64(h, s, hs) ==
  IF s \in DOMAIN hs[h]
    THEN <<hs[h][s]>>
    ELSE <<0, HasherId(h)>> \o s

\* uint64Slice.Less
RECURSIVE LexLess(_, _)
LexLess(a, b) ==
  IF a = <<>> \/ b = <<>> THEN FALSE
  ELSE IF Head(a) # Head(b) THEN Head(a) < Head(b)
  ELSE LexLess(Tail(a), Tail(b))

Less(a, b) ==
  IF Len(a) # Len(b) THEN Len(a) < Len(b) ELSE LexLess(a, b)

\* sort.Sort(uint64Slice(ks))
RECURSIVE Insert(_, _)
Insert(c, s) ==
  IF s = <<>> THEN <<c>>
  ELSE IF Less(Head(s), c) THEN <<Head(s)>> \o Insert(c, Tail(s))
  ELSE <<c>> \o s

RECURSIVE Sort(_)
Sort(ks) == IF ks = <<>> THEN <<>> ELSE Insert(Head(ks), Sort(Tail(ks)))

\* binary.Write(w, binary.LittleEndian, x) of an integer of w bytes
RECURSIVE LittleEndian(_, _)
LittleEndian(n, w) ==
  IF w = 0 THEN <<>> ELSE <<n % 256>> \o LittleEndian(n \div 256, w - 1)

Size(k) ==
  CASE k = "int8"   -> 1
    [] k = "int32"  -> 4
    [] k = "int64"  -> 8
    [] k = "uint64" -> 8
    [] OTHER        -> 0

\* k >= reflect.Int && k <= reflect.Complex64
Numeric(k) == k \in {"int", "int8", "int32", "int64", "uint", "uint64"}

\* ------------------------------------------------------------------------
\* walker.visit and Hash
\* ------------------------------------------------------------------------
ErrKind      == "unknown kind to hash"
ErrCollision == "unresolvable hash collision"
ErrPanic     == "panic: reflect.Value.Interface: unexported field"

Res(e, o, n) == [err |-> e, out |-> o, n |-> n]

\* one pass of the loop only: a single interface or pointer removed
DerefOnce(v, fl) ==
  IF v.kind \in {"interface", "ptr"}
    THEN IF v.elems = <<>> THEN [v |-> Invalid, fl |-> Fresh]
         ELSE [v |-> v.elems[1], fl |-> Flags(v.kind = "ptr", fl.ro)]
    ELSE [v |-> v, fl |-> fl]

\* the loop of visit over interfaces and pointers
RECURSIVE Deref(_, _)
Deref(v, fl) ==
  IF v.kind = "interface"
    THEN IF v.elems = <<>> THEN [v |-> Invalid, fl |-> Fresh]
         ELSE Deref(v.elems[1], Flags(FALSE, fl.ro))
  ELSE IF v.kind = "ptr"
    THEN IF v.elems = <<>> THEN [v |-> Invalid, fl |-> Fresh]
         ELSE Deref(v.elems[1], Flags(TRUE, fl.ro))
  ELSE [v |-> v, fl |-> fl]

\* the switch that widens Int, Uint and Bool
Widen(d) ==
  CASE d.v.kind = "invalid" -> [v |-> Int8V(0), fl |-> Fresh]
    [] d.v.kind = "int"     -> [v |-> Int64V(d.v.num), fl |-> Fresh]
    [] d.v.kind = "uint"    -> [v |-> Uint64V(d.v.num), fl |-> Fresh]
    [] d.v.kind = "bool"    -> [v |-> Int8V(d.v.num), fl |-> Fresh]
    [] OTHER                -> d

\* v.CanSet()
CanSet(fd, fl) == fl.addr /\ ~fl.ro /\ fd.exported

\* the struct case's condition on a field
FieldVisited(fd, fl) == CanSet(fd, fl) \/ fd.name # "_"

\* v.MapIndex(k)
MapIndex(v, k) ==
  LET i == CHOOSE j \in 1..Len(v.elems) : v.elems[j] = k IN v.vals[i]

EmptyM == [c \in {} |-> Invalid]

RECURSIVE visit(_, _, _), Hash(_, _, _), visitElems(_, _, _, _, _),
          visitFields(_, _, _, _, _), keyLoop(_, _, _, _),
          walkSorted(_, _, _, _, _, _)

\* the loop body without the test for a collision: m[ks[i]] = k always
keyApplyUnchecked(st, k, r) ==
  IF r.err # ""
    THEN [st EXCEPT !.ks[st.i + 1] = r.code, !.err = r.err, !.pc = "return"]
    ELSE [st EXCEPT !.ks[st.i + 1] = r.code,
                    !.m = [c \in DOMAIN @ \cup {r.code} |->
                             IF c = r.code THEN k ELSE @[c]],
                    !.i = @ + 1]

\* the loop body with the test of hasher left out: every collision restarts
keyApplyAgain(st, k, r) ==
  IF r.err # ""
    THEN [st EXCEPT !.ks[st.i + 1] = r.code, !.err = r.err, !.pc = "return"]
  ELSE IF r.code \in DOMAIN st.m
    THEN [st EXCEPT !.ks[st.i + 1] = r.code, !.hasher = "fnv",
                    !.resets = @ + 1, !.i = 0 + 1]
  ELSE [st EXCEPT !.ks[st.i + 1] = r.code, !.m = (r.code :> k) @@ @,
                  !.i = @ + 1]

\* the effect on the key-ordering loop of the digest r of the key k = keys[i]
\* st: i (zero based), ks, m, hasher, err, pc
keyApply(st, k, r) ==
  LET s1 == [st EXCEPT !.ks[st.i + 1] = r.code]
  IN IF r.err # ""
       THEN [s1 EXCEPT !.err = r.err, !.pc = "return"]
     ELSE IF r.code \in DOMAIN st.m
       THEN IF st.hasher # "nil"
              THEN [s1 EXCEPT !.err = ErrCollision, !.pc = "return"]
              ELSE [s1 EXCEPT !.hasher = "fnv", !.resets = @ + 1,
                              !.i = 0 + 1]   \* i = 0; continue runs i++
     ELSE [s1 EXCEPT !.m = (r.code :> k) @@ @, !.i = @ + 1]

\* one iteration of the key-ordering loop (the for statement's body and post)
keyStep(keys, kfl, hs, st) ==
  keyApply(st, keys[st.i + 1],
           IF kfl.ro THEN [code |-> Zero, err |-> ErrPanic]
           ELSE Hash(keys[st.i + 1], st.hasher, hs))

keyInit(keys) ==
  [i |-> 0, ks |-> [j \in 1..Len(keys) |-> Zero], m |-> EmptyM,
   hasher |-> "nil", err |-> "", pc |-> "loop", resets |-> 0]

keyLoop(keys, kfl, hs, st) ==
  IF st.pc # "loop" THEN st
  ELSE IF st.i >= Len(keys) THEN [st EXCEPT !.pc = "sorted"]
  ELSE keyLoop(keys, kfl, hs, keyStep(keys, kfl, hs, st))

\* what a walk has done after one more visit returned r
Acc(acc, r) == Res(r.err, acc.out \o r.out, acc.n + r.n)

\* the value of the key k, visited unless the visit of k failed
visitValue(a, v, k, fl, hs) ==
  IF a.err # "" THEN a
  ELSE Acc(a, visit(MapIndex(v, k), Flags(FALSE, fl.ro), hs))

\* the range over the sorted ks: the key, then its value
walkSorted(v, ks, m, fl, hs, acc) ==
  IF ks = <<>> \/ acc.err # "" THEN acc
  ELSE walkSorted(v, Tail(ks), m, fl, hs,
         visitValue(Acc(acc, visit(m[Head(ks)], Flags(FALSE, fl.ro), hs)),
                    v, m[Head(ks)], fl, hs))

\* the Array and Slice cases
visitElems(es, i, fl, hs, acc) ==
  IF i > Len(es) \/ acc.err # "" THEN acc
  ELSE visitElems(es, i + 1, fl, hs, Acc(acc, visit(es[i], fl, hs)))

\* the Struct case
visitFields(v, i, fl, hs, acc) ==
  IF i > Len(v.elems) \/ acc.err # "" THEN acc
  ELSE visitFields(v, i + 1, fl, hs,
         IF FieldVisited(v.flds[i], fl)
           THEN Acc(acc, visit(v.elems[i],
                               Flags(fl.addr, fl.ro \/ ~v.flds[i].exported), hs))
           ELSE acc)

\* the Map case once the keys are ordered
walkOrdered(v, fl, hs, st) ==
  IF st.err # "" THEN Res(st.err, <<>>, 1)
  ELSE walkSorted(v, Sort(st.ks), st.m, fl, hs, Res("", <<>>, 1))

visitMap(v, fl, hs) ==
  walkOrdered(v, fl, hs,
              keyLoop(v.elems, Flags(FALSE, fl.ro), hs, keyInit(v.elems)))

\* visit of the value d.v, pointers and interfaces removed, integers widened
visitKind(d, hs) ==
  IF Numeric(d.v.kind)
    THEN IF d.fl.ro THEN Res(ErrPanic, <<>>, 1)
         ELSE Res("", LittleEndian(d.v.num, Size(d.v.kind)), 1)
  ELSE CASE d.v.kind = "array"  ->
              visitElems(d.v.elems, 1, d.fl, hs, Res("", <<>>, 1))
         [] d.v.kind = "slice"  ->
              visitElems(d.v.elems, 1, Flags(TRUE, d.fl.ro), hs, Res("", <<>>, 1))
         [] d.v.kind = "map"    -> visitMap(d.v, d.fl, hs)
         [] d.v.kind = "struct" -> visitFields(d.v, 1, d.fl, hs, Res("", <<>>, 1))
         [] d.v.kind = "string" -> Res("", d.v.bytes, 1)
         [] OTHER               -> Res(ErrKind, <<>>, 1)

visit(v, fl, hs) == visitKind(Widen(Deref(v, fl)), hs)

\* what Hash returns after visit returned r
Returned(h, r, hs) ==
  IF r.err # ""
    THEN [code |-> Zero, err |-> r.err, out |-> r.out, n |-> r.n]
    ELSE [code |-> Sum64(h, r.out, hs), err |-> "", out |-> r.out, n |-> r.n]

\* the same without the check of visit's error
ReturnedSum(h, r, hs) ==
  [code |-> Sum64(h, r.out, hs), err |-> r.err, out |-> r.out, n |-> r.n]

\* Hash with the check of visit's error left out
HashPartial(v, hasher, hs) ==
  ReturnedSum(IF hasher = "nil" THEN "crc64" ELSE hasher, visit(v, Fresh, hs), hs)

\* Hash(v, &HashOptions{Hasher: hasher}); hasher "nil" is the unset field
Hash(v, hasher, hs) ==
  Returned(IF hasher = "nil" THEN "crc64" ELSE hasher, visit(v, Fresh, hs), hs)

\* ------------------------------------------------------------------------
\* sortValues (the key ordering of src/unnamed/part_001)
\* ------------------------------------------------------------------------
EmptyIdx == [c \in {} |-> 0]

\* the effect on the first loop of the primary digest r of vs[i]
\* st: i, j, ks, m (digest -> zero based index, or -1), collision, err
firstApply(st, r) ==
  LET s1 == [st EXCEPT !.ks[st.i + 1] = r.code, !.err = r.err, !.i = @ + 1]
  IN IF r.err # "" THEN s1
     ELSE IF r.code \in DOMAIN st.m
       THEN IF st.m[r.code] >= 0
              THEN [s1 EXCEPT !.collision = Append(Append(@, st.m[r.code]), st.i),
                              !.m[r.code] = -1]
              ELSE [s1 EXCEPT !.collision = Append(@, st.i)]
     ELSE [s1 EXCEPT !.m = (r.code :> st.i) @@ @]

\* the effect on the second loop of the FNV digest r of vs[c], c = collision[j]
secondApply(st, c, r) ==
  LET s1 == [st EXCEPT !.ks[c + 1] = r.code, !.err = r.err, !.j = @ + 1]
  IN IF r.err # "" THEN s1
     ELSE IF r.code \in DOMAIN st.m THEN [s1 EXCEPT !.err = ErrCollision]
     ELSE [s1 EXCEPT !.m = (r.code :> c) @@ @]

RECURSIVE svFirst(_, _, _), svSecond(_, _, _)

\* the first loop: the primary digest of every value
svFirst(vs, hs, st) ==
  IF st.err # "" \/ st.i >= Len(vs) THEN st
  ELSE svFirst(vs, hs, firstApply(st, Hash(vs[st.i + 1], "nil", hs)))

\* the second loop: the collisions hashed again with FNV
svSecond(vs, hs, st) ==
  IF st.err # "" \/ st.j > Len(st.collision) THEN st
  ELSE svSecond(vs, hs,
         secondApply(st, st.collision[st.j],
                     Hash(vs[st.collision[st.j] + 1], "fnv", hs)))

\* the keys sorted, the result built
svResult(vs, st) ==
  IF st.err # ""
    THEN [called |-> FALSE, vs |-> vs, err |-> st.err, result |-> <<>>,
          ks |-> st.ks, collision |-> st.collision]
    ELSE [called |-> FALSE, vs |-> vs, err |-> "",
          result |-> [i \in 1..Len(vs) |-> st.m[Sort(st.ks)[i]]],
          ks |-> st.ks, collision |-> st.collision]

svInit(vs) ==
  [i |-> 0, j |-> 1, ks |-> [x \in 1..Len(vs) |-> Zero], m |-> EmptyIdx,
   collision |-> <<>>, err |-> ""]

sortValues(vs, hs) == svResult(vs, svSecond(vs, hs, svFirst(vs, hs, svInit(vs))))

\* ------------------------------------------------------------------------
\* The values hashed (the cases of src/hashstructure_test.go, generalised)
\* ------------------------------------------------------------------------
KeyNames == {Sa, Sb, Sc}

\* the value a map stores under a key
ValueOf(k) == IntV(Head(k) - 96)

\* every order in which MapKeys can list the keys of a key set
Orders(S) ==
  {q \in [1..Cardinality(S) -> S] : \A i, j \in 1..Cardinality(S) :
                                       q[i] = q[j] => i = j}

MapOf(q) == MapV([i \in 1..Len(q) |-> StrV(q[i])],
                 [i \in 1..Len(q) |-> ValueOf(q[i])])

MapInputs == {MapOf(q) : q \in UNION {Orders(S) : S \in SUBSET KeyNames}}

KeySet(v) == {v.elems[i] : i \in 1..Len(v.elems)}

\* the enumeration a map is built with: its keys in ascending order
Built(v) == \A i, j \in 1..Len(v.elems) :
              i < j => Head(v.elems[i].bytes) < Head(v.elems[j].bytes)

\* every enumeration of the map v
Enumerations(v) == {MapOf(q) : q \in Orders({k.bytes : k \in KeySet(v)})}

Names == {Sfoo, Sbar}

\* struct{ Fname, Lname string } and struct{ Lname, Fname string }
FnameLname(x, y) ==
  StructV("", <<Fld("Fname", TRUE, ""), Fld("Lname", TRUE, "")>>,
          <<StrV(x), StrV(y)>>)
LnameFname(x, y) ==
  StructV("", <<Fld("Lname", TRUE, ""), Fld("Fname", TRUE, "")>>,
          <<StrV(x), StrV(y)>>)

NameInputs == {FnameLname(x, y) : x, y \in Names}
                \cup {LnameFname(x, y) : x, y \in Names}

\* type testFoo struct{ Name string }; type testBar struct{ Name string }
testFoo(x) == StructV("testFoo", <<Fld("Name", TRUE, "")>>, <<StrV(x)>>)
testBar(x) == StructV("testBar", <<Fld("Name", TRUE, "")>>, <<StrV(x)>>)

TypeInputs == {testFoo(x) : x \in Names} \cup {testBar(x) : x \in Names}

\* type Test struct{ Name string; UUID string `hash:"ignore"` }
TestIgnore(x, u) ==
  StructV("Test", <<Fld("Name", TRUE, ""), Fld("UUID", TRUE, "ignore")>>,
          <<StrV(x), StrV(u)>>)

\* type structWithoutExportedFields struct{ v struct{} }
structWithoutExportedFields ==
  StructV("structWithoutExportedFields", <<Fld("v", FALSE, "")>>,
          <<StructV("", <<>>, <<>>)>>)

\* type structWithoutHashableFields struct{
\*   structWithoutExportedFields; AnotherOne string `hash:"ignore"` }
structWithoutHashableFields(x) ==
  StructV("structWithoutHashableFields",
          <<Fld("structWithoutExportedFields", FALSE, ""),
            Fld("AnotherOne", TRUE, "ignore")>>,
          <<structWithoutExportedFields, StrV(x)>>)

IgnoreInputs == {TestIgnore(x, u) : x, u \in Names}
                  \cup {structWithoutHashableFields(x) : x \in Names}

\* type Test struct{ Name string; Friends []string `hash:"set"` }
TestSet(x, q) ==
  StructV("Test", <<Fld("Name", TRUE, ""), Fld("Friends", TRUE, "set")>>,
          <<StrV(x), SliceV([i \in 1..Len(q) |-> StrV(q[i])])>>)

SetInputs == {TestSet(Sfoo, q) : q \in UNION {Orders(S) : S \in SUBSET Names}}

\* type testIncludable struct{ Value string; Ignore string }
testIncludable(x, y) ==
  StructV("testIncludable",
          <<Fld("Value", TRUE, ""), Fld("Ignore", TRUE, "")>>,
          <<StrV(x), StrV(y)>>)

\* func (t testIncludable) HashInclude(field string, v interface{})
HashInclude(t, field) ==
  IF t = "testIncludable" THEN field # "Ignore" ELSE TRUE

Signore == <<105, 103>>
Strue   == <<116>>

\* type testIncludableMap struct{ Map map[string]string }
testIncludableMap(ks, vs) ==
  StructV("testIncludableMap", <<Fld("Map", TRUE, "")>>,
          <<MapV([i \in 1..Len(ks) |-> StrV(ks[i])],
                 [i \in 1..Len(vs) |-> StrV(vs[i])])>>)

\* func (t testIncludableMap) HashIncludeMap(field string, k, v interface{})
HashIncludeMap(t, field, k) ==
  IF t = "testIncludableMap" /\ field = "Map" /\ k = StrV(Signore)
    THEN FALSE ELSE TRUE

IncludeInputs ==
  {testIncludable(x, y) : x \in Names, y \in Names \cup {<<>>}}
    \cup {testIncludableMap(<<Sfoo>>, <<Sbar>>),
          testIncludableMap(<<Sfoo, Signore>>, <<Sbar, Strue>>),
          testIncludableMap(<<Signore, Sfoo>>, <<Strue, Sbar>>),
          testIncludableMap(<<Sbar>>, <<Sbaz>>)}

\* struct{ Name string } and struct{ Name string; Extra T } with Extra zero
Base(x) == StructV("", <<Fld("Name", TRUE, "")>>, <<StrV(x)>>)
Extended(x, z) ==
  StructV("", <<Fld("Name", TRUE, ""), Fld("Extra", TRUE, "")>>, <<StrV(x), z>>)

ZeroValues ==
  {IntV(0), Int8V(0), BoolV(FALSE), StrV(<<>>), SliceV(<<>>), MapV(<<>>, <<>>),
   StructV("", <<>>, <<>>),
   StructV("", <<Fld("N", TRUE, "")>>, <<IntV(0)>>),
   StructV("", <<Fld("S", TRUE, "")>>, <<StrV(<<>>)>>)}

\* struct{ Name string; secret string }, by value and through a pointer
Secret(x, y) ==
  StructV("", <<Fld("Name", TRUE, ""), Fld("secret", FALSE, "")>>,
          <<StrV(x), StrV(y)>>)
\* struct{ Name string; secret int32 }
SecretInt(x, n) ==
  StructV("", <<Fld("Name", TRUE, ""), Fld("secret", FALSE, "")>>,
          <<StrV(x), Int32V(n)>>)

SecretInputs ==
  {Secret(x, y) : x, y \in Names} \cup {PtrV(Secret(x, y)) : x, y \in Names}
    \cup {SecretInt(Sfoo, n) : n \in {0, 7}}
    \cup {structWithoutExportedFields}

Unwrap(v) == IF v.kind = "ptr" THEN v.elems[1] ELSE v

\* values holding a func or a chan somewhere
Leaves == {IntV(1), StrV(Sfoo), Func, Chan}

Seqs(S, n) == UNION {[1..l -> S] : l \in 1..n}

ABC == <<Fld("A", TRUE, ""), Fld("B", TRUE, ""), Fld("C", TRUE, "")>>

FailInputs ==
  {SliceV(q) : q \in Seqs(Leaves, MaxLen)}
    \cup {StructV("", ABC, q) : q \in [1..3 -> Leaves]}
    \cup {SliceV(<<SliceV(q), x>>) : q \in Seqs(Leaves, 2), x \in Leaves}
    \cup {SliceV(<<IfaceV(x), PtrV(StructV("", SubSeq(ABC, 1, 2), <<y, z>>))>>) :
            x, y, z \in Leaves}
    \cup {MapV(<<StrV(Sfoo)>>, <<x>>) : x \in Leaves}
    \cup {MapV(<<StrV(k[1]), StrV(k[2])>>, <<x, y>>) :
            k \in {<<Sfoo, Sbar>>, <<Sbar, Sfoo>>}, x, y \in Leaves}
    \cup {MapV(<<StrV(Sfoo), IfaceV(Chan)>>, <<x, x>>) : x \in Leaves}
    \cup {MapV(<<IfaceV(Chan), StrV(Sfoo)>>, <<x, x>>) : x \in Leaves}
    \cup {Func, Chan, PtrV(Func), ArrayV(<<Chan, IntV(1)>>)}

\* values with pointers, interfaces and nils at the top and inside
WrapInputs ==
  {IntV(1), Int8V(0), BoolV(FALSE), BoolV(TRUE), StrV(Sfoo),
   NilIface, NilPtr, PtrV(NilPtr), IfaceV(NilPtr),
   SliceV(<<NilPtr, StrV(Sfoo)>>),
   SliceV(<<PtrV(IntV(1)), IfaceV(StrV(Sfoo))>>),
   ArrayV(<<IfaceV(PtrV(StrV(Sbar))), NilIface>>),
   StructV("", SubSeq(ABC, 1, 2), <<PtrV(StrV(Sfoo)), NilIface>>),
   Secret(Sfoo, Sbar), SecretInt(Sfoo, 7),
   MapV(<<StrV(Sa)>>, <<NilPtr>>),
   MapV(<<PtrV(StrV(Sa))>>, <<IfaceV(IntV(1))>>),
   Func, PtrV(Func)}

\* v inside up to n layers of pointers and interfaces
RECURSIVE Wraps(_, _)
Wraps(v, n) ==
  IF n = 0 THEN {v}
  ELSE {v} \cup {PtrV(w) : w \in Wraps(v, n - 1)}
           \cup {IfaceV(w) : w \in Wraps(v, n - 1)}

\* v without its pointers and interfaces, a nil replaced by int8(0)
RECURSIVE Strip(_)
Strip(v) ==
  IF v.kind \in {"interface", "ptr"}
    THEN IF v.elems = <<>> THEN Int8V(0) ELSE Strip(v.elems[1])
    ELSE [v EXCEPT !.elems = [i \in 1..Len(v.elems) |-> Strip(v.elems[i])],
                   !.vals = [i \in 1..Len(v.vals) |-> Strip(v.vals[i])]]

\* the tests: the values of each test's cases
Tests == {"map", "equal", "type", "ignore", "set", "include", "zero",
          "secret", "fail", "wrap"}

\* tc.One
First(t) ==
  CASE t = "map"     -> {v \in MapInputs : Built(v)}
    [] t = "equal"   -> NameInputs
    [] t = "type"    -> TypeInputs
    [] t = "ignore"  -> IgnoreInputs
    [] t = "set"     -> SetInputs
    [] t = "include" -> IncludeInputs
    [] t = "zero"    -> {Base(x) : x \in Names}
    [] t = "secret"  -> SecretInputs
    [] t = "fail"    -> FailInputs
    [] t = "wrap"    -> WrapInputs

\* tc.Two, given tc.One
Second(t, v) ==
  CASE t = "map"     -> Enumerations(v)
    [] t = "equal"   -> NameInputs
    [] t = "type"    -> TypeInputs
    [] t = "ignore"  -> {w \in IgnoreInputs : w.tname = v.tname}
    [] t = "set"     -> SetInputs
    [] t = "include" -> {w \in IncludeInputs : w.tname = v.tname}
    [] t = "zero"    -> {Extended(v.elems[1].bytes, z) : z \in ZeroValues}
    [] t = "secret"  -> {w \in SecretInputs :
                           w.kind = v.kind /\ Unwrap(w).flds = Unwrap(v).flds}
    [] t = "fail"    -> {v}
    [] t = "wrap"    -> Wraps(v, MaxLen) \cup {Strip(v)}

\* ------------------------------------------------------------------------
\* State: the digests drawn so far, and the calls of one test case
\* ------------------------------------------------------------------------
NoCall == [called |-> FALSE, test |-> "", v |-> Invalid, code |-> Zero,
           err |-> "", out |-> <<>>, n |-> 0]

Called(t, v, r) == [called |-> TRUE, test |-> t, v |-> v, code |-> r.code,
                    err |-> r.err, out |-> r.out, n |-> r.n]

NoSort == [called |-> FALSE, vs |-> <<>>, err |-> "", result |-> <<>>,
           ks |-> <<>>, collision |-> <<>>]

\* the key streams a value holds
RECURSIVE Mentions(_)
Mentions(v) ==
  (IF v.kind = "string" THEN {v.bytes} \cap KeyStreams ELSE {})
    \cup UNION {Mentions(v.elems[i]) : i \in 1..Len(v.elems)}
    \cup UNION {Mentions(v.vals[i]) : i \in 1..Len(v.vals)}

\* a hasher run on new key streams yields some digest for each of them
Extend(tab, S) ==
  {t \in [DOMAIN tab \cup S -> Digests] : \A s \in DOMAIN tab : t[s] = tab[s]}

NoDigests == [s \in {} |-> 1]

\* goroutines that call Hash, and the *HashOptions they may pass: nil (Hash
\* then makes its own object) or one object shared by the callers
Goroutines == {1, 2}
Own(g) == IF g = 1 THEN "own1" ELSE "own2"
Objects == {"shared", "own1", "own2"}

Idle == [pc |-> "idle", v |-> Invalid, arg |-> "nil", o |-> "shared", w |-> 0,
         k |-> 0, code |-> Zero]

\* the key-ordering loop before the Map case is entered
NoLoop == [keys |-> <<>>, st |-> [keyInit(<<>>) EXCEPT !.pc = "idle"],
           steps |-> 0]

Init ==
  /\ crc64 = NoDigests
  /\ fnv64 = NoDigests
  /\ one = NoCall
  /\ two = NoCall
  /\ sv = NoSort
  /\ opts = [o \in Objects |-> 0]
  /\ accs = <<>>
  /\ calls = [g \in Goroutines |-> Idle]
  /\ loop = NoLoop

\* one, err := Hash(tc.One, nil)
CallOne ==
  /\ ~one.called /\ ~sv.called
  /\ \E t \in Tests : \E v \in First(t) :
       \E c \in Extend(crc64, Mentions(v)), f \in Extend(fnv64, Mentions(v)) :
         /\ crc64' = c
         /\ fnv64' = f
         /\ one' = Called(t, v, Hash(v, "nil", Hashers(c, f)))
  /\ UNCHANGED <<two, sv>>
  /\ UNCHANGED <<callers, loop>>

\* two, err := Hash(tc.Two, nil)
CallTwo ==
  /\ one.called /\ ~two.called
  /\ \E v \in Second(one.test, one.v) :
       \E c \in Extend(crc64, Mentions(v)), f \in Extend(fnv64, Mentions(v)) :
         /\ crc64' = c
         /\ fnv64' = f
         /\ two' = Called(one.test, v, Hash(v, "nil", Hashers(c, f)))
  /\ UNCHANGED <<one, sv>>
  /\ UNCHANGED <<callers, loop>>

\* idxs, err := sortValues(keys)
CallSortValues ==
  /\ ~one.called /\ ~sv.called
  /\ \E v \in MapInputs :
       \E c \in Extend(crc64, Mentions(v)), f \in Extend(fnv64, Mentions(v)) :
         /\ crc64' = c
         /\ fnv64' = f
         /\ sv' = [sortValues(v.elems, Hashers(c, f)) EXCEPT !.called = TRUE]
  /\ UNCHANGED <<one, two>>
  /\ UNCHANGED <<callers, loop>>

Next == CallOne \/ CallTwo \/ CallSortValues

Spec == Init /\ [][Next]_vars

\* ------------------------------------------------------------------------
\* Hash statement by statement, called from two goroutines
\* ------------------------------------------------------------------------
\* opts[o] is the Hasher field of the options object o: 0 for nil, else the
\* index in accs of the accumulator; accs[a] is the bytes written to the
\* accumulator a since its Reset
CallInputs ==
  {SliceV(<<StrV(Sfoo), StrV(Sbar)>>), SliceV(<<StrV(Sbar)>>), StrV(Sbaz)}

\* the Write calls visit makes on w.w for v
Writes(v) ==
  IF v.kind \in {"slice", "array"}
    THEN [i \in 1..Len(v.elems) |->
            visit(v.elems[i], Flags(TRUE, FALSE), Hashers(crc64, fnv64)).out]
    ELSE <<visit(v, Fresh, Hashers(crc64, fnv64)).out>>

\* another goroutine is about to store opts.Hasher of the object g reads:
\* the accesses are not ordered, the interface value read may be torn
Racing(g) ==
  \E h \in Goroutines \ {g} : calls[h].o = calls[g].o /\ calls[h].pc = "L42"

\* go Hash(v, arg); if opts == nil { opts = &HashOptions{} }
Go(g) ==
  /\ calls[g].pc = "idle"
  /\ \E v \in CallInputs, a \in {"nil", "shared"} :
       calls' = [calls EXCEPT ![g] =
                   [Idle EXCEPT !.pc = "L41", !.v = v, !.arg = a,
                                !.o = IF a = "nil" THEN Own(g) ELSE "shared"]]
  /\ UNCHANGED <<opts, accs>>

\* if opts.Hasher == nil
CheckHasher(g) ==
  /\ calls[g].pc = "L41"
  /\ calls' = [calls EXCEPT ![g].pc =
                 IF opts[calls[g].o] = 0 THEN "L42" ELSE "L46"]
  /\ UNCHANGED <<opts, accs>>

\* opts.Hasher = crc64.New(crc64.MakeTable(crc64.ECMA))
SetHasher(g) ==
  /\ calls[g].pc = "L42"
  /\ accs' = Append(accs, <<>>)
  /\ opts' = [opts EXCEPT ![calls[g].o] = Len(accs) + 1]
  /\ calls' = [calls EXCEPT ![g].pc = "L46"]

\* opts.Hasher.Reset()
Reset(g) ==
  /\ calls[g].pc = "L46"
  /\ accs' = [accs EXCEPT ![opts[calls[g].o]] = <<>>]
  /\ calls' = [calls EXCEPT ![g].pc = "L49"]
  /\ UNCHANGED opts

\* w := &walker{w: opts.Hasher}
NewWalker(g) ==
  /\ calls[g].pc = "L49"
  /\ calls' = [calls EXCEPT ![g].pc = "L50", ![g].w = opts[calls[g].o]]
  /\ UNCHANGED <<opts, accs>>

\* one Write of w.visit(reflect.ValueOf(v))
Write(g) ==
  /\ calls[g].pc = "L50"
  /\ calls[g].k < Len(Writes(calls[g].v))
  /\ accs' = [accs EXCEPT ![calls[g].w] = @ \o Writes(calls[g].v)[calls[g].k + 1]]
  /\ calls' = [calls EXCEPT ![g].k = @ + 1]
  /\ UNCHANGED opts

\* return opts.Hasher.Sum64(), nil
ReturnSum(g) ==
  /\ calls[g].pc = "L50"
  /\ calls[g].k = Len(Writes(calls[g].v))
  /\ calls' = [calls EXCEPT ![g].pc = "done",
                            ![g].code = Sum64("crc64", accs[opts[calls[g].o]],
                                              Hashers(crc64, fnv64))]
  /\ UNCHANGED <<opts, accs>>

\* a method called on a torn opts.Hasher
Torn(g) ==
  /\ calls[g].pc \in {"L46", "L49"} \/ (calls[g].pc = "L50"
                                          /\ calls[g].k = Len(Writes(calls[g].v)))
  /\ Racing(g)
  /\ calls' = [calls EXCEPT ![g].pc = "panic"]
  /\ UNCHANGED <<opts, accs>>

GoCall      == (\E g \in Goroutines : Go(g)) /\ UNCHANGED <<cases, loop>>
CheckCall   == (\E g \in Goroutines : CheckHasher(g)) /\ UNCHANGED <<cases, loop>>
SetCall     == (\E g \in Goroutines : SetHasher(g)) /\ UNCHANGED <<cases, loop>>
ResetCall   == (\E g \in Goroutines : Reset(g)) /\ UNCHANGED <<cases, loop>>
WalkerCall  == (\E g \in Goroutines : NewWalker(g)) /\ UNCHANGED <<cases, loop>>
WriteCall   == (\E g \in Goroutines : Write(g)) /\ UNCHANGED <<cases, loop>>
ReturnCall  == (\E g \in Goroutines : ReturnSum(g)) /\ UNCHANGED <<cases, loop>>
TornCall    == (\E g \in Goroutines : Torn(g)) /\ UNCHANGED <<cases, loop>>

NextCalls ==
  \/ GoCall \/ CheckCall \/ SetCall \/ ResetCall
  \/ WalkerCall \/ WriteCall \/ ReturnCall \/ TornCall

SpecCalls == Init /\ [][NextCalls]_vars

\* ------------------------------------------------------------------------
\* The key-ordering loop iteration by iteration
\* ------------------------------------------------------------------------
\* case reflect.Map: m, ks, keys := ..., v.MapKeys(); i := 0
EnterLoop ==
  /\ loop.st.pc = "idle"
  /\ \E v \in First("map") :
       \E c \in Extend(crc64, Mentions(v)), f \in Extend(fnv64, Mentions(v)) :
         /\ crc64' = c
         /\ fnv64' = f
         /\ loop' = [keys |-> v.elems, st |-> keyInit(v.elems), steps |-> 0]
  /\ UNCHANGED <<one, two, sv, callers>>

\* i < len(keys): the body, then i++
Iterate ==
  /\ loop.st.pc = "loop"
  /\ loop.st.i < Len(loop.keys)
  /\ loop' = [loop EXCEPT
                !.st = keyStep(loop.keys, Fresh, Hashers(crc64, fnv64), loop.st),
                !.steps = @ + 1]
  /\ UNCHANGED <<cases, callers>>

\* i >= len(keys): the loop is left for sort.Sort
LeaveLoop ==
  /\ loop.st.pc = "loop"
  /\ loop.st.i >= Len(loop.keys)
  /\ loop' = [loop EXCEPT !.st.pc = "sorted"]
  /\ UNCHANGED <<cases, callers>>

NextLoop == EnterLoop \/ Iterate \/ LeaveLoop

SpecLoop == Init /\ [][NextLoop]_vars

\* the goroutine that runs the loop keeps running
SpecLoopFair == SpecLoop /\ WF_vars(Iterate) /\ WF_vars(LeaveLoop)

\* ------------------------------------------------------------------------
\* Claims
\* ------------------------------------------------------------------------
SameResult == one.code = two.code /\ one.err = two.err

\* C1: for every map and every two orders in which MapKeys can list its
\* keys, Hash returns the same code (and the same error or none), also when
\* keys share their primary digest.
C1_MapOrderInvariant ==
  (two.called /\ one.test = "map") => SameResult

FieldNames(v) == {v.flds[i].name : i \in 1..Len(v.flds)}
FieldValue(v, nm) == v.elems[CHOOSE i \in 1..Len(v.flds) : v.flds[i].name = nm]

\* C2: two structs declaring the same field names hash equal if and only if
\* every field name is bound to the same value in both.
C2_FieldBinding ==
  (two.called /\ one.test = "equal") =>
    ((one.code = two.code) <=>
       \A nm \in FieldNames(one.v) : FieldValue(one.v, nm) = FieldValue(two.v, nm))

\* C3: two structs of different named types with the same field name and
\* value never hash to the same code.
C3_TypeIdentity ==
  (two.called /\ one.test = "type" /\ one.v.tname # two.v.tname
     /\ one.v.elems = two.v.elems) => one.code # two.code

OnlyTaggedDiffer(v, w, tg) ==
  /\ v.tname = w.tname /\ v.flds = w.flds
  /\ \A i \in 1..Len(v.flds) : v.flds[i].tag # tg => v.elems[i] = w.elems[i]

\* C4: two values of one struct type that differ only in fields tagged
\* hash:"ignore" hash to the same code.
C4_IgnoreTag ==
  (two.called /\ one.test = "ignore" /\ OnlyTaggedDiffer(one.v, two.v, "ignore"))
    => SameResult

Members(v) == LET q == FieldValue(v, "Friends").elems
              IN {q[i] : i \in 1..Len(q)}

\* C5: a struct with a slice tagged hash:"set" hashes the same under every
\* permutation of the slice, and differently when the membership differs.
C5_SetTag ==
  (two.called /\ one.test = "set") =>
    ((one.code = two.code) <=> Members(one.v) = Members(two.v))

\* what the hooks of a struct's type let through: the included fields, a
\* map field reduced to its included entries
Entries(t, nm, m) ==
  {<<m.elems[i], m.vals[i]>> : i \in {j \in 1..Len(m.elems) :
                                        HashIncludeMap(t, nm, m.elems[j])}}
Kept(v) ==
  {<<v.flds[i].name,
     IF v.elems[i].kind = "map"
       THEN [kind |-> "map", entries |-> Entries(v.tname, v.flds[i].name, v.elems[i])]
       ELSE [kind |-> "value", entries |-> {<<v.elems[i], v.elems[i]>>}]>> :
   i \in {j \in 1..Len(v.flds) : HashInclude(v.tname, v.flds[j].name)}}

\* C6: two values that differ only in fields vetoed by HashInclude, or in map
\* entries vetoed by HashIncludeMap, hash to the same code.
C6_IncludeHooks ==
  (two.called /\ one.test = "include" /\ Kept(one.v) = Kept(two.v)) => SameResult

\* C7: a struct with an added exported zero-valued field hashes differently
\* from the struct without it, whatever the field's type.
C7_ZeroField ==
  (two.called /\ one.test = "zero") => one.code # two.code

ExportedEqual(v, w) ==
  /\ v.flds = w.flds
  /\ \A i \in 1..Len(v.flds) : v.flds[i].exported => v.elems[i] = w.elems[i]

\* C8: two values of one struct type that differ only in unexported fields
\* hash to the same code, by value and through a pointer.
C8_UnexportedIgnored ==
  (two.called /\ one.test = "secret"
     /\ ExportedEqual(Unwrap(one.v), Unwrap(two.v))) => SameResult

\* the digests the two hashers give the keys of a map
Primary(k)  == Sum64("crc64", k.bytes, Hashers(crc64, fnv64))
Fallback(k) == Sum64("fnv", k.bytes, Hashers(crc64, fnv64))

\* two distinct keys share the primary and the fallback digest
Unresolvable(keys) ==
  \E i, j \in 1..Len(keys) :
    /\ i # j
    /\ Primary(keys[i]) = Primary(keys[j])
    /\ Fallback(keys[i]) = Fallback(keys[j])

\* C9: hashing a map fails with "unresolvable hash collision" exactly when
\* two distinct keys that share their primary digest also share their
\* fallback digest; otherwise Hash returns a code and no error.
C9_CollisionError ==
  (one.called /\ one.test = "map") =>
    /\ (one.err = ErrCollision) <=> Unresolvable(one.v.elems)
    /\ one.err \in {"", ErrCollision}

\* the same statement about sortValues
C9_SortValuesError ==
  sv.called => ((sv.err = ErrCollision) <=> Unresolvable(sv.vs))

\* ---- fail-fast ----
RECURSIVE Flat(_)
Flat(qs) == IF qs = <<>> THEN <<>> ELSE Head(qs) \o Flat(Tail(qs))

Supported(d) ==
  Numeric(d.kind) \/ d.kind \in {"array", "slice", "map", "struct", "string"}

\* the keys of a map in ascending order of their digest
KeyOrder(m) ==
  LET hs == Hashers(crc64, fnv64)
      cs == Sort([i \in 1..Len(m.elems) |-> Hash(m.elems[i], "nil", hs).code])
  IN [i \in 1..Len(cs) |->
        CHOOSE k \in KeySet(m) : Hash(k, "nil", hs).code = cs[i]]

\* the values of v in the order a complete traversal reaches them, each
\* with pointers and interfaces removed; a map one of whose keys cannot be
\* hashed counts as one value that cannot be hashed
RECURSIVE Pre(_)
Pre(v) ==
  LET d == Widen(Deref(v, Fresh)).v
      sub(q) == Flat([i \in 1..Len(q) |-> Pre(q[i])])
  IN CASE d.kind \in {"array", "slice"} -> <<d>> \o sub(d.elems)
       [] d.kind = "struct" ->
            <<d>> \o Flat([i \in 1..Len(d.elems) |->
                             IF d.flds[i].name = "_" THEN <<>> ELSE Pre(d.elems[i])])
       [] d.kind = "map" ->
            IF \E i \in 1..Len(d.elems) :
                 \E j \in 1..Len(Pre(d.elems[i])) : ~Supported(Pre(d.elems[i])[j])
              THEN <<Func>>
              ELSE LET ko == KeyOrder(d)
                   IN <<d>> \o Flat([i \in 1..Len(ko) |->
                                       Pre(ko[i]) \o Pre(MapIndex(d, ko[i]))])
       [] OTHER -> <<d>>

NodeBytes(d) ==
  IF Numeric(d.kind) THEN LittleEndian(d.num, Size(d.kind))
  ELSE IF d.kind = "string" THEN d.bytes ELSE <<>>

HasBad(v) == \E i \in 1..Len(Pre(v)) : ~Supported(Pre(v)[i])

FirstBad(v) ==
  CHOOSE i \in 1..Len(Pre(v)) :
    ~Supported(Pre(v)[i]) /\ \A j \in 1..(i - 1) : Supported(Pre(v)[j])

WrittenBefore(v) == Flat([j \in 1..(FirstBad(v) - 1) |-> NodeBytes(Pre(v)[j])])

\* C10: when a value of an unsupported kind is reached at any depth, Hash
\* returns an error and the code 0, and exactly the values before the
\* failing one were visited and written.
C10_FailFast ==
  (one.called /\ one.test = "fail" /\ HasBad(one.v)) =>
    /\ one.err = ErrKind
    /\ one.code = Zero
    /\ one.out = WrittenBefore(one.v)
    /\ one.n = FirstBad(one.v)

\* a func between two supported elements of a slice was hashed
C10_Witness ==
  /\ one.called
  /\ one.v = SliceV(<<StrV(Sfoo), Func, IntV(1)>>)
  /\ one.err = ErrKind
  /\ one.out = Sfoo

\* ---- accumulators of concurrent calls ----
\* the code Hash(v, opts) returns when no other call runs
Alone(v) == Hash(v, "nil", Hashers(crc64, fnv64)).code

\* the goroutines whose walker holds an accumulator
Walking == {g \in Goroutines : calls[g].pc = "L50"}

OwnAccumulator == \A g, h \in Walking : g # h => calls[g].w # calls[h].w

OptionsUnchanged ==
  \A g \in Goroutines :
    (calls[g].pc = "done" /\ calls[g].arg = "shared") => opts["shared"] = 0

CodeAsAlone ==
  \A g \in Goroutines :
    calls[g].pc = "done" => calls[g].code = Alone(calls[g].v)

\* C11: calls of Hash without a Hasher, also with one shared options object,
\* never write to the same accumulator, leave the options object as it was,
\* and return the code they return when run alone.
C11_OwnAccumulator == OwnAccumulator /\ OptionsUnchanged /\ CodeAsAlone

\* ---- the final digests of map keys ----
\* the key-ordering loop run on the keys of the map v
Ordered(v) ==
  keyLoop(v.elems, Fresh, Hashers(crc64, fnv64), keyInit(v.elems))

\* the key keys[i] shares its primary digest with another key
Shares(keys, i) ==
  \E j \in 1..Len(keys) : j # i /\ Primary(keys[j]) = Primary(keys[i])

\* the final digest the rule gives keys[i]: the fallback digest for a key
\* that shares its primary digest, the primary digest for every other key
Expected(keys, i) ==
  IF Shares(keys, i) THEN Fallback(keys[i]) ELSE Primary(keys[i])

ExpectedDistinct(keys) ==
  \A i, j \in 1..Len(keys) : i # j => Expected(keys, i) # Expected(keys, j)

\* exactly two of the keys share their primary digest
OnePair(keys) == Cardinality({i \in 1..Len(keys) : Shares(keys, i)}) = 2

\* C12: when the keys of a map are ordered, a key that shares its primary
\* digest with another key ends with its fallback digest and every other key
\* with its primary digest; with one colliding pair whose final digests are
\* distinct the map is hashed without error.
C12_FinalDigests ==
  (one.called /\ one.test = "map") =>
    /\ Ordered(one.v).err = "" =>
         \A i \in 1..Len(one.v.elems) :
           Ordered(one.v).ks[i] = Expected(one.v.elems, i)
    /\ (OnePair(one.v.elems) /\ ExpectedDistinct(one.v.elems)) => one.err = ""

\* the same statements about sortValues
C12_SortValuesDigests ==
  (sv.called /\ sv.err = "") =>
    \A i \in 1..Len(sv.vs) : sv.ks[i] = Expected(sv.vs, i)

C12_SortValuesOnePair ==
  (sv.called /\ OnePair(sv.vs) /\ ExpectedDistinct(sv.vs)) => sv.err = ""

\* ---- the walk over the ordered keys ----
Distinct(q) == \A i, j \in 1..Len(q) : i # j => q[i] # q[j]

Ascending(q) == \A i, j \in 1..Len(q) : i < j => Less(q[i], q[j])

\* the bytes of the entry i of the map v: the key, then its value
EntryBytes(v, i) ==
  NodeBytes(Widen(Deref(v.elems[i], Fresh)).v)
    \o NodeBytes(Widen(Deref(v.vals[i], Fresh)).v)

\* the walk wrote every entry of v once, the key followed by its own value,
\* in ascending order of the final digests ks
WalkOf(v, ks, out) ==
  \E p \in Orders(1..Len(v.elems)) :
    /\ Ascending([i \in 1..Len(p) |-> ks[p[i]]])
    /\ out = Flat([i \in 1..Len(p) |-> EntryBytes(v, p[i])])

\* C13: whenever the ordering of the keys succeeds, the final digests are
\* pairwise distinct and the walk writes every entry exactly once, each key
\* followed by its own value, in strictly ascending order of final digest;
\* sortValues returns every index 0..n-1 exactly once, in that order.
C13_WalkPermutation ==
  /\ (one.called /\ one.test = "map" /\ Ordered(one.v).err = "") =>
       /\ Distinct(Ordered(one.v).ks)
       /\ one.err = ""
       /\ WalkOf(one.v, Ordered(one.v).ks, one.out)
  /\ (sv.called /\ sv.err = "") =>
       /\ Distinct(sv.ks)
       /\ Len(sv.result) = Len(sv.vs)
       /\ {sv.result[i] : i \in 1..Len(sv.result)} = 0..(Len(sv.vs) - 1)
       /\ Ascending([i \in 1..Len(sv.result) |-> sv.ks[sv.result[i] + 1]])

\* a map of three keys, two of them sharing the primary digest, was walked
C13_Witness ==
  /\ one.called /\ one.test = "map" /\ one.err = ""
  /\ Len(one.v.elems) = 3
  /\ Ordered(one.v).resets = 1
  /\ Len(one.out) = 27

\* ---- pointers, interfaces and nil ----
\* nil at the top, and the values nil is treated like
Nils == {NilIface, NilPtr, PtrV(NilPtr), IfaceV(NilPtr)}

\* C14: a value hashes the same inside any number of pointers and
\* interfaces and with its inner pointers and interfaces removed, errors
\* included; for a nil exactly the byte of int8(0) is written, so that nil,
\* int8(0) and false have one code.
C14_WrapperNormalization ==
  /\ (two.called /\ one.test = "wrap") => (SameResult /\ one.out = two.out)
  /\ (one.called /\ one.test = "wrap"
        /\ one.v \in Nils \cup {Int8V(0), BoolV(FALSE)}) =>
       /\ one.err = ""
       /\ one.out = <<0>>
       /\ one.code = Sum64("crc64", LittleEndian(0, 1), Hashers(crc64, fnv64))

\* a slice holding a nil pointer was hashed by value and behind three layers
C14_Witness ==
  /\ two.called /\ one.test = "wrap"
  /\ one.v = SliceV(<<NilPtr, StrV(Sfoo)>>)
  /\ two.v = PtrV(IfaceV(PtrV(one.v)))
  /\ two.err = ""
  /\ two.out = <<0>> \o Sfoo

\* ---- termination of the key-ordering loop ----
\* the loop has ended: sort.Sort is reached or an error is returned
Ended == loop.st.pc \in {"sorted", "return"}

\* the index was reset at most once, a collision error comes only after the
\* reset, and a map of n keys takes at most 2n iterations
AtMostOneReset ==
  /\ loop.st.resets <= 1
  /\ loop.st.resets = 1 => loop.st.hasher = "fnv"
  /\ loop.st.err = ErrCollision => loop.st.resets = 1
  /\ loop.steps <= 2 * Len(loop.keys)

====
